---- MODULE Spec2Model ----
(***************************************************************************)
(* Dataset curation pipeline of the Pokemon-Recognizer repository:         *)
(*   seleniumscrape.py          browser-driven acquisition run             *)
(*   scrape_pokemon_images.py   static-HTTP acquisition run                *)
(*   clean_corrupted_images.py  maintenance scan                           *)
(* The three scripts are separate programs working on the same data/       *)
(* directory; a user starts one at a time from the shell.                  *)
(***************************************************************************)
EXTENDS Integers, Sequences, FiniteSets, TLC

\* ------------------------------------------------------------------ bounds
\* largest --train-target / --test-target / target_count a run is started with
MaxTarget == 2
\* longest candidate list one search page yields
MaxCands == 2

\* ------------------------------------------------------- program constants
DEFAULT_MIN_IMAGE_WIDTH == 150
DEFAULT_MIN_IMAGE_HEIGHT == 150

ALLOWED_EXTENSIONS == {".jpg", ".jpeg", ".png"}
ALLOWED_MIME_KEYWORDS == {"image/jpeg", "image/jpg", "image/png"}
TRAIN_CARD_QUERIES ==
  <<"pokemon tcg card scan", "pokemon trading card holo",
    "pokemon tcg full art card", "pokemon tcg promo card">>
TEST_CARD_QUERIES ==
  <<"pokemon tcg card illustration", "pokemon tcg reverse holo card",
    "pokemon tcg promo scan">>

\* the names given on the command line (args.names / sys.argv[1:])
Pokemons == <<"eevee">>
Subsets == <<"train", "test">>
Folders == {<<Subsets[s], Pokemons[p]>> : s \in 1..Len(Subsets), p \in 1..Len(Pokemons)}

\* ------------------------------------------------------------- file names
\* A file name is prefix, "_" digits (num; <<>> when the name carries no
\* number) and the extension as spelled on disk.
RECURSIVE Digits(_)
Digits(n) == IF n < 10 THEN <<n>> ELSE Append(Digits(n \div 10), n % 10)

RECURSIVE ZeroPad(_, _)
ZeroPad(s, w) == IF Len(s) >= w THEN s ELSE ZeroPad(<<0>> \o s, w)

\* f"{index:03d}"
Fmt03d(n) == ZeroPad(Digits(n), 3)

\* int() of a digit string
RECURSIVE ToInt(_)
ToInt(d) == IF d = <<>> THEN 0 ELSE 10 * ToInt(SubSeq(d, 1, Len(d) - 1)) + d[Len(d)]

\* f"{pokemon}_{index:03d}{extension}"
FileName(pokemon, index, extension) ==
  [pre |-> pokemon, num |-> Fmt03d(index), ext |-> extension]

\* str.lower() on the spellings that occur
Lower(s) ==
  CASE s = ".JPG" -> ".jpg"
    [] s = ".JPEG" -> ".jpeg"
    [] s = ".PNG" -> ".png"
    [] s = "IMAGE/PNG" -> "image/png"
    [] OTHER -> s

\* f.lower().endswith(ALLOWED_EXTENSIONS)
IsImageFile(f) == Lower(f.ext) \in ALLOWED_EXTENSIONS

\* the count without .lower(): upper-case extensions are missed
count_image_files_cased(folder) ==
  Cardinality({f \in DOMAIN folder : f.ext \in ALLOWED_EXTENSIONS})

\* len([f for f in os.listdir(folder) if f.lower().endswith(ALLOWED_EXTENSIONS)])
count_image_files(folder) == Cardinality({f \in DOMAIN folder : IsImageFile(f)})

\* ------------------------------------------------------------- file bytes
\* What the programs read from an image's bytes: byte length, whether PIL
\* decodes it, its size in pixels, whether its alpha channel sums to zero,
\* the standard deviation of its luma, and the encoding.
Image(size, ok, w, h, clear, sd, fmt) ==
  [size |-> size, ok |-> ok, w |-> w, h |-> h, clear |-> clear,
   stddev |-> sd, fmt |-> fmt]

OldGood == Image(9000, TRUE, 256, 256, FALSE, 40, "JPEG")
OldPng == Image(9000, TRUE, 256, 256, FALSE, 40, "PNG")
Empty == Image(0, FALSE, 0, 0, FALSE, 0, "none")
Corrupt == Image(9000, FALSE, 0, 0, FALSE, 0, "none")
Blank == Image(7000, TRUE, 256, 256, FALSE, 0, "JPEG")
Flat == Image(7000, TRUE, 256, 256, FALSE, 5, "JPEG")
Faint == Image(7000, TRUE, 256, 256, FALSE, 4, "JPEG")
Clear == Image(7000, TRUE, 256, 256, TRUE, 0, "PNG")
ClearArt == Image(7000, TRUE, 256, 256, TRUE, 40, "PNG")
Thumb == Image(7000, TRUE, 48, 48, FALSE, 40, "JPEG")
Light == Image(2000, TRUE, 256, 256, FALSE, 40, "JPEG")
NetGood == Image(8000, TRUE, 200, 300, FALSE, 30, "JPEG")
NetSmall == Image(8000, TRUE, 100, 300, FALSE, 30, "JPEG")

\* image.convert("RGB"): the alpha channel is dropped
ensure_rgb(img) == [img EXCEPT !.clear = FALSE]

\* raw_image.save(filepath, image_format)
Encode(img, image_format) == [img EXCEPT !.fmt = image_format]

\* a writer that unlinks a file it finds at name and then saves nothing
WriteFileUnlinking(folder, name, bytes) ==
  IF name \in DOMAIN folder
  THEN [f \in DOMAIN folder \ {name} |-> folder[f]]
  ELSE [f \in DOMAIN folder \cup {name} |-> IF f = name THEN bytes ELSE folder[f]]

\* the folder after a file is created or replaced at name
WriteFile(folder, name, bytes) ==
  [f \in DOMAIN folder \cup {name} |-> IF f = name THEN bytes ELSE folder[f]]

\* a removal that keeps the bytes under the name with the extension .bad
RemoveFileQuarantining(folder, name) ==
  [f \in (DOMAIN folder \ {name}) \cup {[name EXCEPT !.ext = ".bad"]} |->
     IF f \in DOMAIN folder \ {name} THEN folder[f] ELSE folder[name]]

\* os.remove(path)
RemoveFile(folder, name) == [f \in DOMAIN folder \ {name} |-> folder[f]]

\* --------------------------------------------------------------- the web
\* An image address: what tells two candidates apart, and the extension its
\* path ends in ("" when it has none).
Urls == {[id |-> 1, ext |-> ".jpg"], [id |-> 2, ext |-> ".PNG"], [id |-> 3, ext |-> ""]}

\* What a GET of an image address comes back with. status "error" stands for
\* every exception of session.get / raise_for_status (timeout, non-2xx).
HttpError == [status |-> "error", ctype |-> "", body |-> Corrupt]
Responses ==
  {HttpError} \cup
  [status : {"ok"}, ctype : {"image/jpeg", "IMAGE/PNG", "text/html", ""},
   body : {NetGood, NetSmall, Corrupt}]

\* sequences of at most n elements of S
SeqUpTo(S, n) == UNION {[1..k -> S] : k \in 0..n}
NoDup(q) == \A i, j \in 1..Len(q) : i # j => q[i] # q[j]

\* gather_candidates: the src of every .rg_i element, first occurrence of each
\* address kept (seen_urls); ImageCandidate leaves width and height unset
\* (None, written 0: both are falsy).
ImageCandidate(url) == [url |-> url, width |-> 0, height |-> 0]
CandidateLists ==
  {[i \in 1..Len(q) |-> ImageCandidate(q[i])] : q \in {r \in SeqUpTo(Urls, MaxCands) : NoDup(r)}}

\* image_urls of download_images: every src of the page, shuffled
ImageUrlLists == SeqUpTo(Urls, MaxCands)

\* any(path.endswith(ext) for ext in ALLOWED_EXTENSIONS) on the lowered path
has_allowed_extension(url) == Lower(url.ext) \in ALLOWED_EXTENSIONS

\* any(mime in content_type for mime in ALLOWED_MIME_KEYWORDS)
MimeAllowed(content_type) == content_type \in ALLOWED_MIME_KEYWORDS

\* "png" in content_type
HasPng(content_type) == content_type = "image/png"

Skipped(why) == [saved |-> FALSE, why |-> why]
Saved(filename, bytes) == [saved |-> TRUE, why |-> "saved", filename |-> filename, bytes |-> bytes]

\* os.path.exists(filepath)
PathExists(folder, filename) == filename \in DOMAIN folder

\* fetch_image without the test of the image's dimensions
fetch_image_any_size(resp, url, folder, pokemon, index, min_width, min_height) ==
  LET content_type == Lower(resp.ctype)
      is_png == IF content_type # "" THEN HasPng(content_type)
                ELSE Lower(url.ext) = ".png"
      image_format == IF is_png THEN "PNG" ELSE "JPEG"
      extension == IF image_format = "PNG" THEN ".png" ELSE ".jpg"
      filename == FileName(pokemon, index, extension)
      raw_image == resp.body
  IN  IF resp.status # "ok" THEN Skipped("request failed")
      ELSE IF content_type # "" /\ ~MimeAllowed(content_type) THEN Skipped("content type")
      ELSE IF content_type = "" /\ ~has_allowed_extension(url) THEN Skipped("content type")
      ELSE IF PathExists(folder, filename) THEN Skipped("path exists")
      ELSE IF ~raw_image.ok THEN Skipped("decode failed")
      ELSE Saved(filename,
                 Encode(IF image_format = "JPEG" THEN ensure_rgb(raw_image) ELSE raw_image,
                        image_format))

\* fetch_image: the file it writes (Saved) or the place it returns None from
fetch_image(resp, url, folder, pokemon, index, min_width, min_height) ==
  LET content_type == Lower(resp.ctype)
      is_png == IF content_type # "" THEN HasPng(content_type)
                ELSE Lower(url.ext) = ".png"
      image_format == IF is_png THEN "PNG" ELSE "JPEG"
      extension == IF image_format = "PNG" THEN ".png" ELSE ".jpg"
      filename == FileName(pokemon, index, extension)
      raw_image == resp.body
  IN  IF resp.status # "ok" THEN Skipped("request failed")
      ELSE IF content_type # "" /\ ~MimeAllowed(content_type) THEN Skipped("content type")
      ELSE IF content_type = "" /\ ~has_allowed_extension(url) THEN Skipped("content type")
      ELSE IF PathExists(folder, filename) THEN Skipped("path exists")
      ELSE IF ~raw_image.ok THEN Skipped("decode failed")
      ELSE IF raw_image.w < min_width \/ raw_image.h < min_height THEN Skipped("dimensions")
      ELSE Saved(filename,
                 Encode(IF image_format = "JPEG" THEN ensure_rgb(raw_image) ELSE raw_image,
                        image_format))

\* ----------------------------------------------------------- the validator
\* ScanSettings as parse_args builds it
ScanSettings(min_file_size, min_dimension, low_variance_threshold, dry_run) ==
  [min_file_size |-> min_file_size, min_dimension |-> min_dimension,
   low_variance_threshold |-> low_variance_threshold, dry_run |-> dry_run]

\* the argparse defaults
DefaultSettings(dry_run) == ScanSettings(0, 1, 0, dry_run)

Verdict(remove, reason, stages) == [remove |-> remove, reason |-> reason, stages |-> stages]

\* should_remove with the low-detail stage ahead of the transparency stage
should_remove_detail_first(img, settings) ==
  IF img.size < settings.min_file_size
    THEN Verdict(TRUE, "file too small", <<"size">>)
  ELSE IF ~img.ok
    THEN Verdict(TRUE, "corrupted image", <<"size", "decode">>)
  ELSE IF img.w < settings.min_dimension \/ img.h < settings.min_dimension
    THEN Verdict(TRUE, "dimensions too small", <<"size", "decode", "dimensions">>)
  ELSE IF settings.low_variance_threshold > 0
          /\ img.stddev < settings.low_variance_threshold
    THEN Verdict(TRUE, "low detail", <<"size", "decode", "dimensions", "low detail">>)
  ELSE IF img.clear
    THEN Verdict(TRUE, "fully transparent image",
                 <<"size", "decode", "dimensions">>
                 \o (IF settings.low_variance_threshold > 0 THEN <<"low detail">> ELSE <<>>)
                 \o <<"transparency">>)
  ELSE Verdict(FALSE, "none",
               <<"size", "decode", "dimensions">>
               \o (IF settings.low_variance_threshold > 0 THEN <<"low detail">> ELSE <<>>)
               \o <<"transparency">>)

\* should_remove with the size floor inclusive (file_size <= min_file_size)
should_remove_floor_inclusive(img, settings) ==
  IF img.size <= settings.min_file_size
    THEN Verdict(TRUE, "file too small", <<"size">>)
  ELSE IF ~img.ok
    THEN Verdict(TRUE, "corrupted image", <<"size", "decode">>)
  ELSE IF img.w < settings.min_dimension \/ img.h < settings.min_dimension
    THEN Verdict(TRUE, "dimensions too small", <<"size", "decode", "dimensions">>)
  ELSE IF img.clear
    THEN Verdict(TRUE, "fully transparent image",
                 <<"size", "decode", "dimensions", "transparency">>)
  ELSE IF settings.low_variance_threshold > 0
          /\ img.stddev < settings.low_variance_threshold
    THEN Verdict(TRUE, "low detail",
                 <<"size", "decode", "dimensions", "transparency", "low detail">>)
  ELSE Verdict(FALSE, "none",
               <<"size", "decode", "dimensions", "transparency">>
               \o (IF settings.low_variance_threshold > 0 THEN <<"low detail">> ELSE <<>>))

\* should_remove with the low-detail test inclusive (stddev <= threshold)
should_remove_stddev_inclusive(img, settings) ==
  IF img.size < settings.min_file_size
    THEN Verdict(TRUE, "file too small", <<"size">>)
  ELSE IF ~img.ok
    THEN Verdict(TRUE, "corrupted image", <<"size", "decode">>)
  ELSE IF img.w < settings.min_dimension \/ img.h < settings.min_dimension
    THEN Verdict(TRUE, "dimensions too small", <<"size", "decode", "dimensions">>)
  ELSE IF img.clear
    THEN Verdict(TRUE, "fully transparent image",
                 <<"size", "decode", "dimensions", "transparency">>)
  ELSE IF settings.low_variance_threshold > 0
          /\ img.stddev <= settings.low_variance_threshold
    THEN Verdict(TRUE, "low detail",
                 <<"size", "decode", "dimensions", "transparency", "low detail">>)
  ELSE Verdict(FALSE, "none",
               <<"size", "decode", "dimensions", "transparency">>
               \o (IF settings.low_variance_threshold > 0 THEN <<"low detail">> ELSE <<>>))

\* should_remove on a file with the given bytes: (remove, reason), and the
\* stages it entered, in order
should_remove(img, settings) ==
  IF img.size < settings.min_file_size
    THEN Verdict(TRUE, "file too small", <<"size">>)
  ELSE IF ~img.ok
    THEN Verdict(TRUE, "corrupted image", <<"size", "decode">>)
  ELSE IF img.w < settings.min_dimension \/ img.h < settings.min_dimension
    THEN Verdict(TRUE, "dimensions too small", <<"size", "decode", "dimensions">>)
  ELSE IF img.clear
    THEN Verdict(TRUE, "fully transparent image",
                 <<"size", "decode", "dimensions", "transparency">>)
  ELSE IF settings.low_variance_threshold > 0
          /\ img.stddev < settings.low_variance_threshold
    THEN Verdict(TRUE, "low detail",
                 <<"size", "decode", "dimensions", "transparency", "low detail">>)
  ELSE Verdict(FALSE, "none",
               <<"size", "decode", "dimensions", "transparency">>
               \o (IF settings.low_variance_threshold > 0 THEN <<"low detail">> ELSE <<>>))

\* ------------------------------------------------------------------ state
VARIABLES
  fs,      \* data/: (subset, class folder) -> (file name -> bytes)
  cli,     \* the target pairs the user passes on the command line
  prog,    \* the program that is running: "idle" when none is
  pc,      \* where the running program is
  args,    \* its arguments (targets and minimum size, or the ScanSettings)
  pos,     \* p: index into the names, s: into the subsets, m: into the modifiers
  frame,   \* the local variables of the function at pc (candidates: those
           \* the loop has yet to visit)
  report,  \* the folders the run has warned about ("only n/target images")
  start,   \* the folder at pos as it was when the program began to fill it
  last,    \* what the last step did: the request it sent (a search, the fetch
           \* of a candidate) and what the candidate or scanned file came to
  seen     \* the addresses among Watched that the searches of the run have
           \* returned for the folder at pos: by earlier calls, and by the
           \* call under way

vars == <<fs, cli, prog, pc, args, pos, frame, report, start, last, seen>>

NoFrame == <<>>
NoArgs == <<>>
NoPos == [p |-> 0, s |-> 0, m |-> 0]
NoLast == [kind |-> "none"]
NoSeen == [earlier |-> {}, current |-> {}]

\* the folder the running program is at: os.path.join(split_dir, pokemon)
Folder == <<Subsets[pos.s], Pokemons[pos.p]>>
FirstFolder == <<Subsets[1], Pokemons[1]>>

\* ------------------------------------------------------- starting datasets
Unnumbered(pre, ext) == [pre |-> pre, num |-> <<>>, ext |-> ext]

\* the folder holding the given (name, bytes) pairs
MkFolder(S) == [n \in {e[1] : e \in S} |-> (CHOOSE e \in S : e[1] = n)[2]]

Gapless(k) == MkFolder({<<FileName(k, 1, ".jpg"), OldGood>>, <<FileName(k, 2, ".PNG"), OldPng>>})
Gapped(k) == MkFolder({<<FileName(k, 2, ".jpg"), OldGood>>})
Mixed(k) ==
  MkFolder({<<Unnumbered("scan", ".JPEG"), OldGood>>, <<Unnumbered("notes", ".txt"), Empty>>})
Broken(k) ==
  MkFolder({<<FileName(k, 1, ".jpg"), Corrupt>>, <<FileName(k, 2, ".jpg"), OldGood>>,
            <<FileName(k, 3, ".png"), Clear>>})
Stubs(k) ==
  MkFolder({<<FileName(k, 1, ".jpg"), Empty>>, <<FileName(k, 2, ".jpg"), Thumb>>,
            <<FileName(k, 3, ".jpg"), Blank>>})
Dull(k) ==
  MkFolder({<<FileName(k, 1, ".jpg"), Flat>>, <<FileName(k, 2, ".jpg"), Faint>>,
            <<FileName(k, 3, ".png"), ClearArt>>, <<FileName(k, 4, ".jpg"), Light>>})

\* the (train folder, test folder) pairs a class starts with
InitPairs(k) ==
  { <<MkFolder({}), MkFolder({})>>,
    <<Gapped(k), Gapless(k)>>,
    <<Mixed(k), Stubs(k)>>,
    <<Broken(k), Gapless(k)>>,
    <<Dull(k), MkFolder({})>> }

InitFolders(k) == UNION {{pr[1], pr[2]} : pr \in InitPairs(k)}

Idle ==
  /\ prog = "idle" /\ pc = "shell"
  /\ args = NoArgs /\ pos = NoPos /\ frame = NoFrame
  /\ report = {} /\ start = <<>> /\ last = NoLast /\ seen = NoSeen

\* the train targets runs are started with: a single image, or MaxTarget of
\* them (the test target is a single image)
Targets == {1, MaxTarget}

\* the program ends and the shell has the terminal again
ToShell ==
  /\ prog' = "idle" /\ pc' = "shell"
  /\ args' = NoArgs /\ pos' = NoPos /\ frame' = NoFrame
  /\ report' = {} /\ start' = <<>> /\ last' = NoLast /\ seen' = NoSeen

Init ==
  /\ fs \in {d \in [Folders -> UNION {InitFolders(Pokemons[p]) : p \in 1..Len(Pokemons)}] :
               \A p \in 1..Len(Pokemons) :
                 <<d[<<Subsets[1], Pokemons[p]>>], d[<<Subsets[2], Pokemons[p]>>]>>
                   \in InitPairs(Pokemons[p])}
  /\ cli = [train : Targets, test : {1}]
  /\ Idle

\* ----------------------------------------------------- seleniumscrape.py
target_count == IF pos.s = 1 THEN args.train_target ELSE args.test_target
modifiers == IF pos.s = 1 THEN TRAIN_CARD_QUERIES ELSE TEST_CARD_QUERIES

\* the quota test off by one
QuotaMetStrict(current_count, tc) == current_count > tc

\* if current_count >= target_count: return current_count
QuotaMet(current_count, tc) == current_count >= tc

\* next_index = current_count + 1
FirstIndex(current_count) == current_count + 1

\* the response is one fetch_image saves when no file is in the way: the
\* request succeeds, the content type (or, without one, the address) is an
\* image's, the bytes decode and the image is large enough
Acceptable(resp, url, min_width, min_height) ==
  /\ resp.status = "ok"
  /\ IF resp.ctype # ""
     THEN Lower(resp.ctype) \in {"image/jpeg", "image/jpg", "image/png"}
     ELSE Lower(url.ext) \in {".jpg", ".jpeg", ".png"}
  /\ resp.body.ok
  /\ resp.body.w >= min_width /\ resp.body.h >= min_height

\* main up to the first fill_split
SelLaunch ==
  /\ prog = "idle"
  /\ \E t \in cli :
       args' = [train_target |-> t.train, test_target |-> t.test,
                min_width |-> DEFAULT_MIN_IMAGE_WIDTH, min_height |-> DEFAULT_MIN_IMAGE_HEIGHT]
  /\ prog' = "selenium" /\ pc' = "fill_split"
  /\ pos' = [p |-> 1, s |-> 1, m |-> 1]
  /\ start' = fs[FirstFolder]
  /\ frame' = NoFrame /\ report' = {} /\ last' = NoLast
  /\ UNCHANGED <<fs, cli, seen>>

\* the urls of a candidate list
UrlsOf(candidates) == {candidates[i].url : i \in 1..Len(candidates)}

\* the addresses whose returns are recorded in seen
Watched == {u \in Urls : u.id = 1}

\* the bytes a save has put on disk when it is cut short: a prefix of the
\* encoding, which no longer decodes
Truncated(bytes) == [bytes EXCEPT !.size = @ \div 2, !.ok = FALSE]

\* the warning test one image late
WarnsLate(final_total, tc) == final_total + 1 < tc

\* if final_total < target_count: print("only final_total/target_count images")
Warns(final_total, tc) == final_total < tc

\* download_images_for_modifier up to its loop: count, return or search
SelEnter ==
  /\ prog = "selenium" /\ pc = "fill_split"
  /\ LET current_count == count_image_files(fs[Folder]) IN
       IF QuotaMet(current_count, target_count)
       THEN /\ frame' = [current_count |-> current_count, total |-> current_count]
            /\ pc' = "final"
            /\ last' = NoLast
            /\ seen' = seen
       ELSE /\ \E candidates \in CandidateLists :
                 /\ frame' = [current_count |-> current_count, candidates |-> candidates,
                              next_index |-> FirstIndex(current_count), saved |-> 0,
                              found |-> Len(candidates), fit |-> TRUE]
                 /\ seen' = [seen EXCEPT !.current = UrlsOf(candidates) \cap Watched]
            /\ pc' = "candidates"
            /\ last' = [kind |-> "search", query |-> modifiers[pos.m]]
  /\ UNCHANGED <<fs, cli, prog, args, pos, report, start>>

\* one pass of the loop over the candidates
SelCandidate ==
  /\ prog = "selenium" /\ pc = "candidates"
  /\ frame.candidates # <<>>
  /\ ~(frame.current_count + frame.saved >= target_count)
  /\ LET candidate == Head(frame.candidates) IN
       IF \/ candidate.width # 0 /\ candidate.width < args.min_width
          \/ candidate.height # 0 /\ candidate.height < args.min_height
       THEN /\ frame' = [frame EXCEPT !.candidates = Tail(@), !.fit = FALSE]
            /\ last' = [kind |-> "filtered"]
            /\ UNCHANGED fs
       ELSE \E resp \in Responses :
              LET r == fetch_image(resp, candidate.url, fs[Folder], Pokemons[pos.p],
                                   frame.next_index, args.min_width, args.min_height)
                  good == Acceptable(resp, candidate.url, args.min_width, args.min_height)
              IN  /\ fs' = IF r.saved
                           THEN [fs EXCEPT ![Folder] = WriteFile(@, r.filename, r.bytes)]
                           ELSE fs
                  /\ frame' = [frame EXCEPT !.candidates = Tail(@),
                                            !.saved = IF r.saved THEN @ + 1 ELSE @,
                                            !.next_index = IF r.saved THEN @ + 1 ELSE @,
                                            !.fit = @ /\ good]
                  /\ last' = [kind |-> "fetch", why |-> r.why, good |-> good,
                              again |-> candidate.url \in seen.earlier]
  /\ UNCHANGED <<cli, seen, prog, pc, args, pos, report, start>>

\* the loop ends; download_images_for_modifier returns total and fill_split
\* breaks or goes on to the next modifier
SelReturn ==
  /\ prog = "selenium" /\ pc = "candidates"
  /\ \/ frame.candidates = <<>>
     \/ frame.current_count + frame.saved >= target_count
  /\ LET total == frame.current_count + frame.saved IN
       /\ frame' = [current_count |-> frame.current_count, total |-> total]
       /\ IF total >= target_count \/ pos.m = Len(modifiers)
          THEN pc' = "final" /\ pos' = pos
          ELSE pc' = "fill_split" /\ pos' = [pos EXCEPT !.m = @ + 1]
  /\ seen' = [earlier |-> seen.earlier \cup seen.current, current |-> {}]
  /\ last' = NoLast
  /\ UNCHANGED <<fs, cli, prog, args, report, start>>

\* the end of fill_split (the warning) and main's step to the next folder
SelFinal ==
  /\ prog = "selenium" /\ pc = "final"
  /\ LET final_total == count_image_files(fs[Folder]) IN
       report' = IF Warns(final_total, target_count) THEN report \cup {Folder} ELSE report
  /\ IF pos.s < Len(Subsets)
     THEN /\ pos' = [pos EXCEPT !.s = @ + 1, !.m = 1]
          /\ pc' = "fill_split"
          /\ start' = fs[<<Subsets[pos.s + 1], Pokemons[pos.p]>>]
          /\ frame' = NoFrame
     ELSE IF pos.p < Len(Pokemons)
     THEN /\ pos' = [p |-> pos.p + 1, s |-> 1, m |-> 1]
          /\ pc' = "fill_split"
          /\ start' = fs[<<Subsets[1], Pokemons[pos.p + 1]>>]
          /\ frame' = NoFrame
     ELSE /\ pc' = "finished"
          /\ UNCHANGED <<pos, start, frame>>
  /\ seen' = NoSeen
  /\ last' = NoLast
  /\ UNCHANGED <<fs, cli, prog, args>>

\* KeyboardInterrupt: between two steps of the run, or while fetch_image is
\* in raw_image.save (except Exception does not catch it); main's finally
\* runs and the program ends
SelInterrupt ==
  /\ prog = "selenium" /\ pc \in {"fill_split", "candidates", "final"}
  /\ \/ UNCHANGED <<fs, last>>
     \/ /\ pc = "candidates"
        /\ frame.candidates # <<>>
        /\ ~(frame.current_count + frame.saved >= target_count)
        /\ \E resp \in Responses :
             LET r == fetch_image(resp, Head(frame.candidates).url, fs[Folder],
                                  Pokemons[pos.p], frame.next_index,
                                  args.min_width, args.min_height)
             IN  /\ r.saved
                 /\ fs' = [fs EXCEPT ![Folder] = WriteFile(@, r.filename, Truncated(r.bytes))]
                 /\ last' = [kind |-> "interrupted", file |-> r.filename, whole |-> r.bytes]
  /\ pc' = "finished"
  /\ UNCHANGED <<cli, seen, prog, args, pos, frame, report, start>>

\* finally: driver.quit(); session.close()
SelExit ==
  /\ prog = "selenium" /\ pc = "finished"
  /\ ToShell
  /\ UNCHANGED <<fs, cli>>

\* ------------------------------------------------ scrape_pokemon_images.py
\* the first argument of download_images: pokemon for train, pokemon + " art"
\* for test
PokemonArg == IF pos.s = 1 THEN Pokemons[pos.p] ELSE Pokemons[pos.p] \o " art"

\* remaining = target_count - current_count
Remaining(tc, current_count) == tc - current_count

\* count = current_count + 1
FirstCount(current_count) == current_count + 1

\* the script up to the first download_images; download_images takes its
\* target as a parameter (the script passes TARGET_TRAIN_IMAGES and
\* TARGET_TEST_IMAGES)
BingLaunch ==
  /\ prog = "idle"
  /\ \E t \in cli : args' = [train_target |-> t.train, test_target |-> t.test]
  /\ prog' = "bing" /\ pc' = "download_images"
  /\ pos' = [p |-> 1, s |-> 1, m |-> 1]
  /\ start' = fs[FirstFolder]
  /\ frame' = NoFrame /\ report' = {} /\ last' = NoLast
  /\ UNCHANGED <<fs, cli, seen>>

\* download_images up to its loop: count, return, or fetch the result page
BingEnter ==
  /\ prog = "bing" /\ pc = "download_images"
  /\ LET current_count == count_image_files(fs[Folder])
         remaining == Remaining(target_count, current_count)
     IN  IF remaining <= 0
         THEN /\ frame' = [current_count |-> current_count, remaining |-> remaining]
              /\ pc' = "returned"
              /\ last' = NoLast
         ELSE /\ last' = [kind |-> "search"]
              /\ \/ /\ frame' = [current_count |-> current_count, remaining |-> remaining]
                    /\ pc' = "returned"
                 \/ \E image_urls \in ImageUrlLists :
                      IF image_urls = <<>>
                      THEN /\ frame' = [current_count |-> current_count,
                                        remaining |-> remaining]
                           /\ pc' = "returned"
                      ELSE /\ frame' = [current_count |-> current_count,
                                        remaining |-> remaining,
                                        image_urls |-> image_urls,
                                        count |-> FirstCount(current_count)]
                           /\ pc' = "image_urls"
  /\ UNCHANGED <<fs, cli, seen, prog, args, pos, report, start>>

\* one pass of the loop over image_urls
BingImage ==
  /\ prog = "bing" /\ pc = "image_urls"
  /\ frame.image_urls # <<>>
  /\ ~(frame.count > target_count)
  /\ \E resp \in Responses :
       LET decoded == resp.status = "ok" /\ resp.body.ok
           filename == FileName(PokemonArg, frame.count, ".jpg")
       IN  /\ fs' = IF decoded
                    THEN [fs EXCEPT ![Folder] =
                            WriteFile(@, filename, Encode(ensure_rgb(resp.body), "JPEG"))]
                    ELSE fs
           /\ frame' = [frame EXCEPT !.image_urls = Tail(@),
                                     !.count = IF decoded THEN @ + 1 ELSE @]
           /\ last' = [kind |-> "fetch", why |-> IF decoded THEN "saved" ELSE "skipped",
                       good |-> decoded, again |-> FALSE]
  /\ UNCHANGED <<cli, seen, prog, pc, args, pos, report, start>>

\* KeyboardInterrupt: between two steps of the script, or while download_images
\* is in img.save (except Exception does not catch it); the script dies
BingInterrupt ==
  /\ prog = "bing" /\ pc \in {"download_images", "image_urls", "returned"}
  /\ \/ UNCHANGED <<fs, last>>
     \/ /\ pc = "image_urls"
        /\ frame.image_urls # <<>>
        /\ ~(frame.count > target_count)
        /\ \E resp \in Responses :
             LET filename == FileName(PokemonArg, frame.count, ".jpg")
                 whole == Encode(ensure_rgb(resp.body), "JPEG")
             IN  /\ resp.status = "ok" /\ resp.body.ok
                 /\ fs' = [fs EXCEPT ![Folder] = WriteFile(@, filename, Truncated(whole))]
                 /\ last' = [kind |-> "interrupted", file |-> filename, whole |-> whole]
  /\ pc' = "finished"
  /\ UNCHANGED <<cli, seen, prog, args, pos, frame, report, start>>

\* the loop ends and download_images returns
BingReturn ==
  /\ prog = "bing" /\ pc = "image_urls"
  /\ frame.image_urls = <<>> \/ frame.count > target_count
  /\ pc' = "returned"
  /\ frame' = [current_count |-> frame.current_count, remaining |-> frame.remaining,
               count |-> frame.count]
  /\ last' = NoLast
  /\ UNCHANGED <<fs, cli, seen, prog, args, pos, report, start>>

\* the main loop's step to the next folder
BingNext ==
  /\ prog = "bing" /\ pc = "returned"
  /\ IF pos.s < Len(Subsets)
     THEN /\ pos' = [pos EXCEPT !.s = @ + 1]
          /\ pc' = "download_images"
          /\ start' = fs[<<Subsets[pos.s + 1], Pokemons[pos.p]>>]
          /\ frame' = NoFrame
     ELSE IF pos.p < Len(Pokemons)
     THEN /\ pos' = [pos EXCEPT !.p = @ + 1, !.s = 1]
          /\ pc' = "download_images"
          /\ start' = fs[<<Subsets[1], Pokemons[pos.p + 1]>>]
          /\ frame' = NoFrame
     ELSE /\ pc' = "finished"
          /\ UNCHANGED <<pos, start, frame>>
  /\ last' = NoLast
  /\ UNCHANGED <<fs, cli, seen, prog, args, report>>

\* "All requested Pokemon processed successfully!"
BingExit ==
  /\ prog = "bing" /\ pc = "finished"
  /\ ToShell
  /\ UNCHANGED <<fs, cli>>

\* ------------------------------------------------ clean_corrupted_images.py
\* the settings scans are started with: the defaults, and every filter on
\* (--min-file-size 6144 --min-dimension 64 --low-variance-threshold 5),
\* each with and without --dry-run
SettingsSet ==
  { DefaultSettings(FALSE), DefaultSettings(TRUE),
    ScanSettings(6144, 64, 5, FALSE), ScanSettings(6144, 64, 5, TRUE) }

\* file.lower().endswith(ALLOWED_EXTENSIONS)
ScanAllowed(f) == Lower(f.ext) \in {".png", ".jpg", ".jpeg"}

\* the files os.walk yields under data/<subset> that the loop does not skip
Listing(d, s) ==
  UNION {{<<F, f>> : f \in {g \in DOMAIN d[F] : ScanAllowed(g)}} :
           F \in {G \in Folders : G[1] = Subsets[s]}}

\* the file the walk yields next: the directory order is the file system's,
\* one fixed order
NextFile(files) == CHOOSE x \in files : TRUE

\* reason_counts[reason] += 1
Incr(counter, key) ==
  [k \in DOMAIN counter \cup {key} |->
     IF k = key THEN (IF k \in DOMAIN counter THEN counter[k] + 1 ELSE 1) ELSE counter[k]]

\* main up to the walk of the first subset
ScanLaunch ==
  /\ prog = "idle"
  /\ \E settings \in SettingsSet : args' = settings
  /\ prog' = "scan" /\ pc' = "walk"
  /\ pos' = [p |-> 0, s |-> 1, m |-> 0]
  /\ frame' = [files |-> Listing(fs, 1), checked |-> 0, removed |-> 0,
               reason_counts |-> <<>>]
  /\ start' = <<>> /\ report' = {} /\ last' = NoLast
  /\ UNCHANGED <<fs, cli, seen>>

\* one pass of the loop over the files of the subset (os.remove is taken to
\* succeed on a file the walk has just listed)
ScanFile ==
  /\ prog = "scan" /\ pc = "walk"
  /\ frame.files # {}
  /\ LET x == NextFile(frame.files) IN
       LET F == x[1]
           file == x[2]
           v == should_remove(fs[F][file], args)
           counted == [frame EXCEPT !.files = @ \ {x}, !.checked = @ + 1,
                                    !.removed = @ + 1,
                                    !.reason_counts = Incr(@, v.reason)]
           passed == [frame EXCEPT !.files = @ \ {x}, !.checked = @ + 1]
       IN  IF ~v.remove
           THEN /\ frame' = passed /\ fs' = fs
                /\ last' = [kind |-> "judge", file |-> x, bytes |-> fs[F][file], verdict |-> v,
                            deleted |-> FALSE]
           ELSE IF args.dry_run
           THEN /\ frame' = counted /\ fs' = fs
                /\ last' = [kind |-> "judge", file |-> x, bytes |-> fs[F][file], verdict |-> v,
                            deleted |-> FALSE]
           ELSE /\ fs' = [fs EXCEPT ![F] = RemoveFile(@, file)]
                /\ frame' = counted
                /\ last' = [kind |-> "judge", file |-> x, bytes |-> fs[F][file], verdict |-> v,
                            deleted |-> TRUE]
  /\ UNCHANGED <<cli, seen, prog, pc, args, pos, report, start>>

\* the pass of the loop in which os.remove raises OSError: "Failed to
\* delete", the file stays and is not counted
ScanStuck ==
  /\ prog = "scan" /\ pc = "walk"
  /\ frame.files # {}
  /\ LET x == NextFile(frame.files)
         v == should_remove(fs[x[1]][x[2]], args)
     IN  /\ v.remove /\ ~args.dry_run
         /\ frame' = [frame EXCEPT !.files = @ \ {x}, !.checked = @ + 1]
         /\ last' = [kind |-> "judge", file |-> x, bytes |-> fs[x[1]][x[2]], verdict |-> v,
                     deleted |-> FALSE]
  /\ UNCHANGED <<fs, cli, seen, prog, pc, args, pos, report, start>>

\* the walk of a subset ends: on to the next subset, or to the summary
ScanNextSubset ==
  /\ prog = "scan" /\ pc = "walk"
  /\ frame.files = {}
  /\ IF pos.s < Len(Subsets)
     THEN /\ pos' = [pos EXCEPT !.s = @ + 1]
          /\ frame' = [frame EXCEPT !.files = Listing(fs, pos.s + 1)]
          /\ pc' = pc
     ELSE /\ pc' = "summary"
          /\ UNCHANGED <<pos, frame>>
  /\ last' = NoLast
  /\ UNCHANGED <<fs, cli, seen, prog, args, report, start>>

\* "Corruption scan finished successfully."
ScanExit ==
  /\ prog = "scan" /\ pc = "summary"
  /\ ToShell
  /\ UNCHANGED <<fs, cli>>

Next ==
  \/ SelLaunch \/ SelEnter \/ SelCandidate \/ SelReturn \/ SelFinal \/ SelExit
  \/ BingLaunch \/ BingEnter \/ BingImage \/ BingReturn \/ BingNext \/ BingExit
  \/ ScanLaunch \/ ScanFile \/ ScanNextSubset \/ ScanExit

Spec == Init /\ [][Next]_vars

\* a program that has been started goes on to its next step: the scripts are
\* sequential and every request they send carries a timeout
SelRun == SelEnter \/ SelCandidate \/ SelReturn \/ SelFinal \/ SelExit

SpecLive == Spec /\ WF_vars(SelRun)

\* runs that the user may interrupt (Ctrl-C), on the folders that start empty
\* or with a gap
NextInterrupt == Next \/ SelInterrupt \/ BingInterrupt

InitInterrupt ==
  /\ fs \in {d \in [Folders -> UNION {InitFolders(Pokemons[p]) : p \in 1..Len(Pokemons)}] :
               \A p \in 1..Len(Pokemons) :
                 <<d[<<Subsets[1], Pokemons[p]>>], d[<<Subsets[2], Pokemons[p]>>]>>
                   \in {<<MkFolder({}), MkFolder({})>>, <<Gapped(Pokemons[p]), Gapless(Pokemons[p])>>}}
  /\ cli = [train : Targets, test : {1}]
  /\ Idle

SpecInterrupt == InitInterrupt /\ [][NextInterrupt]_vars

\* the scan alone, on every starting dataset, a deletion failing or not
NextScan == ScanLaunch \/ ScanFile \/ ScanStuck \/ ScanNextSubset \/ ScanExit

SpecScan == Init /\ [][NextScan]_vars

\* ------------------------------------------------- the end-to-end scenario
\* data/train/eevee holds eevee_001 .. eevee_007.jpg, the fourth of them
\* corrupted; runs are started with a train target of 10
E2EFolder ==
  MkFolder({<<FileName("eevee", i, ".jpg"), IF i = 4 THEN Corrupt ELSE OldGood>> : i \in 1..7})
E2EAfterScan == RemoveFile(E2EFolder, FileName("eevee", 4, ".jpg"))

InitE2E ==
  /\ fs = [F \in Folders |-> IF F = FirstFolder THEN E2EFolder ELSE MkFolder({})]
  /\ cli = {[train |-> 10, test |-> 0]}
  /\ Idle

SpecE2E == InitE2E /\ [][Next]_vars

\* ------------------------------------------------ check_dataset_summary.py
TARGET_TRAIN == 100
TARGET_TEST == 10

\* A folder name is the sequence of its characters.
Alphabet ==
  <<"a", "b", "c", "d", "e", "f", "g", "h", "i", "j", "k", "l", "m",
    "n", "o", "p", "q", "r", "s", "t", "u", "v", "w", "x", "y", "z">>
Ord(c) == CHOOSE i \in 1..Len(Alphabet) : Alphabet[i] = c

\* a < b for str
RECURSIVE StrLess(_, _)
StrLess(a, b) ==
  IF b = <<>> THEN FALSE
  ELSE IF a = <<>> THEN TRUE
  ELSE IF Head(a) # Head(b) THEN Ord(Head(a)) < Ord(Head(b))
  ELSE StrLess(Tail(a), Tail(b))

\* sorted(S)
RECURSIVE Sorted(_)
Sorted(S) ==
  IF S = {} THEN <<>>
  ELSE LET m == CHOOSE x \in S : \A y \in S : x = y \/ StrLess(x, y)
       IN  <<m>> \o Sorted(S \ {m})

\* the length of the run a[i..] = b[j..] inside a[..ahi], b[..bhi]
RECURSIVE RunLength(_, _, _, _, _, _)
RunLength(a, b, i, j, ahi, bhi) ==
  IF i > ahi \/ j > bhi THEN 0
  ELSE IF a[i] # b[j] THEN 0
  ELSE 1 + RunLength(a, b, i + 1, j + 1, ahi, bhi)

\* SequenceMatcher.find_longest_match(alo, ahi, blo, bhi): the longest block
\* a[i..i+k-1] = b[j..j+k-1]; of the longest, the one that starts earliest in
\* a, and of those the one that starts earliest in b
find_longest_match(a, b, alo, ahi, blo, bhi) ==
  LET blocks == {<<i, j, RunLength(a, b, i, j, ahi, bhi)>> : i \in alo..ahi, j \in blo..bhi}
      found == {m \in blocks : m[3] > 0}
  IN  IF found = {} THEN <<alo, blo, 0>>
      ELSE CHOOSE m \in found :
             \A o \in found :
               \/ o[3] < m[3]
               \/ o[3] = m[3] /\ m[1] < o[1]
               \/ o[3] = m[3] /\ m[1] = o[1] /\ m[2] <= o[2]

\* the sum of the sizes of SequenceMatcher.get_matching_blocks()
RECURSIVE Matches(_, _, _, _, _, _)
Matches(a, b, alo, ahi, blo, bhi) ==
  IF alo > ahi \/ blo > bhi THEN 0
  ELSE LET m == find_longest_match(a, b, alo, ahi, blo, bhi) IN
         IF m[3] = 0 THEN 0
         ELSE m[3] + Matches(a, b, alo, m[1] - 1, blo, m[2] - 1)
                   + Matches(a, b, m[1] + m[3], ahi, m[2] + m[3], bhi)

\* SequenceMatcher(None, a, b).ratio() = 2.0 * matches / (len(a) + len(b)),
\* kept as the pair (numerator, denominator)
ratio(a, b) ==
  IF Len(a) + Len(b) = 0 THEN <<1, 1>>
  ELSE <<2 * Matches(a, b, 1, Len(a), 1, Len(b)), Len(a) + Len(b)>>

\* r >= cutoff, the cutoff in hundredths
AtLeast(r, cutoff) == 100 * r[1] >= cutoff * r[2]
RatioLess(r, q) == r[1] * q[2] < q[1] * r[2]
RatioEq(r, q) == r[1] * q[2] = q[1] * r[2]

\* get_close_matches with the cutoff two hundredths higher
get_close_matches_tight(word, possibilities, cutoff) ==
  LET result == {x \in possibilities : AtLeast(ratio(x, word), cutoff + 2)}
  IN  IF result = {} THEN <<>>
      ELSE <<CHOOSE x \in result :
               \A y \in result :
                 \/ y = x
                 \/ RatioLess(ratio(y, word), ratio(x, word))
                 \/ RatioEq(ratio(y, word), ratio(x, word)) /\ StrLess(y, x)>>

\* difflib.get_close_matches(word, possibilities, n=1, cutoff): the
\* possibility x of the largest (ratio, x) among those whose ratio against
\* word is at least cutoff, as a list of at most one name
get_close_matches(word, possibilities, cutoff) ==
  LET result == {x \in possibilities : AtLeast(ratio(x, word), cutoff)}
  IN  IF result = {} THEN <<>>
      ELSE <<CHOOSE x \in result :
               \A y \in result :
                 \/ y = x
                 \/ RatioLess(ratio(y, word), ratio(x, word))
                 \/ RatioEq(ratio(y, word), ratio(x, word)) /\ StrLess(y, x)>>

\* count_images(folder) for a folder that exists
count_images(folder) ==
  Cardinality({f \in DOMAIN folder : Lower(f.ext) \in {".jpg", ".jpeg", ".png"}})

\* set(os.listdir(TRAIN_DIR)), set(os.listdir(TEST_DIR))
Listdir(subset) == {F[2] : F \in {G \in DOMAIN fs : G[1] = subset}}

\* the status test with strict comparisons
StatusStrict(train_count, test_count) ==
  IF train_count > TARGET_TRAIN /\ test_count > TARGET_TEST THEN "Complete" ELSE "Incomplete"

\* status = "Complete" if train_count >= TARGET_TRAIN and test_count >= TARGET_TEST
Status(train_count, test_count) ==
  IF train_count >= TARGET_TRAIN /\ test_count >= TARGET_TEST THEN "Complete" ELSE "Incomplete"

\* the script up to the loop over all_pokemon
RepLaunch ==
  /\ prog = "idle"
  /\ prog' = "summary" /\ pc' = "normalize"
  /\ frame' = [train_pokemon |-> Listdir("train"), test_pokemon |-> Listdir("test"),
               all_pokemon |-> Sorted(Listdir("train") \cup Listdir("test")),
               normalized |-> <<>>]
  /\ args' = NoArgs /\ pos' = NoPos /\ report' = {} /\ start' = <<>> /\ last' = NoLast
  /\ UNCHANGED <<fs, cli, seen>>

\* one pass of the loop over all_pokemon
RepName ==
  /\ prog = "summary" /\ pc = "normalize"
  /\ frame.all_pokemon # <<>>
  /\ LET name == Head(frame.all_pokemon)
         match == get_close_matches(name, DOMAIN frame.normalized, 88)
         canon == IF match # <<>> THEN match[1] ELSE name
     IN  frame' = [frame EXCEPT
                     !.all_pokemon = Tail(@),
                     !.normalized = [n \in DOMAIN @ \cup {name} |->
                                       IF n = name THEN canon ELSE @[n]]]
  /\ last' = NoLast
  /\ UNCHANGED <<fs, cli, seen, prog, pc, args, pos, report, start>>

\* merged_names = sorted(set(normalized.values()))
RepMerged ==
  /\ prog = "summary" /\ pc = "normalize"
  /\ frame.all_pokemon = <<>>
  /\ pc' = "rows"
  /\ frame' = [train_pokemon |-> frame.train_pokemon, test_pokemon |-> frame.test_pokemon,
               normalized |-> frame.normalized,
               merged_names |-> Sorted({frame.normalized[n] : n \in DOMAIN frame.normalized}),
               todo |-> Sorted({frame.normalized[n] : n \in DOMAIN frame.normalized})]
  /\ last' = NoLast
  /\ UNCHANGED <<fs, cli, seen, prog, args, pos, report, start>>

\* one pass of the loop over merged_names: a row of the summary
RepRow ==
  /\ prog = "summary" /\ pc = "rows"
  /\ frame.todo # <<>>
  /\ LET pokemon == Head(frame.todo)
         train_match == get_close_matches(pokemon, frame.train_pokemon, 88)
         test_match == get_close_matches(pokemon, frame.test_pokemon, 88)
         train_count == IF train_match # <<>>
                        THEN count_images(fs[<<"train", train_match[1]>>]) ELSE 0
         test_count == IF test_match # <<>>
                       THEN count_images(fs[<<"test", test_match[1]>>]) ELSE 0
     IN  last' = [kind |-> "row", pokemon |-> pokemon, train_count |-> train_count,
                  test_count |-> test_count, status |-> Status(train_count, test_count)]
  /\ frame' = [frame EXCEPT !.todo = Tail(@)]
  /\ UNCHANGED <<fs, cli, seen, prog, pc, args, pos, report, start>>

\* "Summary complete!"
RepExit ==
  /\ prog = "summary" /\ pc = "rows"
  /\ frame.todo = <<>>
  /\ ToShell
  /\ UNCHANGED <<fs, cli>>

NextSummary == RepLaunch \/ RepName \/ RepMerged \/ RepRow \/ RepExit

\* the datasets the summary is run on: each of three class folders is
\* missing from a split, one image short of the split's target, or at it
bulbasaur == <<"b", "u", "l", "b", "a", "s", "a", "u", "r">>
bulbasuar == <<"b", "u", "l", "b", "a", "s", "u", "a", "r">>
ivysaur == <<"i", "v", "y", "s", "a", "u", "r">>
Labels == {bulbasaur, bulbasuar, ivysaur}

\* a folder of n images of class k
Filled(k, n) == [f \in {FileName(k, i, ".jpg") : i \in 1..n} |-> OldGood]

InitSummary ==
  /\ \E tr \in [Labels -> {-1, TARGET_TRAIN - 1, TARGET_TRAIN}] :
       \E te \in [Labels -> {-1, TARGET_TEST - 1, TARGET_TEST}] :
         fs = [F \in {<<"train", k>> : k \in {n \in Labels : tr[n] >= 0}}
                     \cup {<<"test", k>> : k \in {n \in Labels : te[n] >= 0}} |->
                 IF F[1] = "train" THEN Filled(F[2], tr[F[2]]) ELSE Filled(F[2], te[F[2]])]
  /\ cli = {}
  /\ Idle

SpecSummary == InitSummary /\ [][NextSummary]_vars

\* the misspelt folder names the summary is run on: bulbazuar is one letter
\* from bulbasuar and two from bulbasaur
bulbazuar == <<"b", "u", "l", "b", "a", "z", "u", "a", "r">>
Spellings == Labels \cup {bulbazuar}

\* every set of these names, each name a folder of the train split, of the
\* test split or of both, the folders empty
InitSpellings ==
  /\ \E tr \in SUBSET Spellings : \E te \in SUBSET Spellings :
       fs = [F \in {<<"train", k>> : k \in tr} \cup {<<"test", k>> : k \in te} |->
               Filled(F[2], 0)]
  /\ cli = {}
  /\ Idle

SpecSpellings == InitSpellings /\ [][NextSummary]_vars

\* ---------------------------------------------------------- rename_images.py
\* files: the names of the folder whose extension, lowered, is .jpg, .jpeg
\* or .png
ImageFiles(folder) == {f \in DOMAIN folder : Lower(f.ext) \in {".jpg", ".jpeg", ".png"}}

\* pattern.match(f) for pattern = ^{class_name}_(\d+)\.
pattern_match(class_name, f) == f.pre = class_name /\ f.num # <<>>

\* existing_numbers, as a set
existing_numbers(class_name, files) ==
  {ToInt(f.num) : f \in {g \in files : pattern_match(class_name, g)}}

\* the start index without the step past the highest number
start_index_at_max(numbers) ==
  IF numbers = {} THEN 0
  ELSE CHOOSE n \in numbers : \A k \in numbers : k <= n

\* start_index = max(existing_numbers, default=0) + 1
start_index(numbers) ==
  IF numbers = {} THEN 1
  ELSE (CHOOSE n \in numbers : \A k \in numbers : k <= n) + 1

\* while os.path.exists(dst): counter += 1 ...: the counter the loop ends at
RECURSIVE Probe(_, _, _, _)
Probe(folder, class_name, counter, ext) ==
  IF FileName(class_name, counter, ext) \in DOMAIN folder
  THEN Probe(folder, class_name, counter + 1, ext)
  ELSE counter

\* os.rename(src, dst): a file at dst is replaced
Rename(folder, src, dst) ==
  [f \in (DOMAIN folder \ {src}) \cup {dst} |-> IF f = dst THEN folder[src] ELSE folder[f]]

\* the script up to the first class folder of data/train
RenLaunch ==
  /\ prog = "idle"
  /\ prog' = "rename" /\ pc' = "class"
  /\ pos' = [p |-> 1, s |-> 1, m |-> 0]
  /\ args' = NoArgs /\ frame' = NoFrame /\ report' = {} /\ start' = <<>> /\ last' = NoLast
  /\ UNCHANGED <<fs, cli, seen>>

\* the body of the loop over the class folders, up to the loop over files
RenEnter ==
  /\ prog = "rename" /\ pc = "class"
  /\ LET class_name == Pokemons[pos.p]
         files == ImageFiles(fs[Folder])
     IN  frame' = [files |-> files,
                   counter |-> start_index(existing_numbers(class_name, files))]
  /\ pc' = "files"
  /\ start' = fs[Folder]
  /\ last' = NoLast
  /\ UNCHANGED <<fs, cli, seen, prog, args, pos, report>>

\* one pass of the loop over files, which come in the order os.listdir gave
\* them, any order
RenFile ==
  /\ prog = "rename" /\ pc = "files"
  /\ \E filename \in frame.files :
       LET class_name == Pokemons[pos.p]
           ext == Lower(filename.ext)
           counter == Probe(fs[Folder], class_name, frame.counter, ext)
           dst == FileName(class_name, counter, ext)
       IN  IF pattern_match(class_name, filename)
           THEN /\ frame' = [frame EXCEPT !.files = @ \ {filename}]
                /\ last' = [kind |-> "kept", file |-> filename]
                /\ fs' = fs
           ELSE /\ fs' = [fs EXCEPT ![Folder] = Rename(@, filename, dst)]
                /\ frame' = [frame EXCEPT !.files = @ \ {filename}, !.counter = counter + 1]
                /\ last' = [kind |-> "renamed", file |-> filename, dst |-> dst,
                            there |-> dst \in DOMAIN fs[Folder]]
  /\ UNCHANGED <<cli, seen, prog, pc, args, pos, report, start>>

\* "Done": on to the next class folder, the next split, or the end
RenDone ==
  /\ prog = "rename" /\ pc = "files"
  /\ frame.files = {}
  /\ IF pos.p < Len(Pokemons)
     THEN pos' = [pos EXCEPT !.p = @ + 1] /\ pc' = "class"
     ELSE IF pos.s < Len(Subsets)
     THEN pos' = [pos EXCEPT !.p = 1, !.s = @ + 1] /\ pc' = "class"
     ELSE pos' = pos /\ pc' = "finished"
  /\ frame' = NoFrame /\ last' = NoLast
  /\ UNCHANGED <<fs, cli, seen, prog, args, report, start>>

RenExit ==
  /\ prog = "rename" /\ pc = "finished"
  /\ ToShell
  /\ UNCHANGED <<fs, cli>>

NextRename == RenLaunch \/ RenEnter \/ RenFile \/ RenDone \/ RenExit

\* the folders the script is run on: files without a number, files the
\* static scraper named after its query, a file of another class, numbered
\* files that are no images
Loose(k) ==
  MkFolder({<<Unnumbered("scan", ".JPEG"), OldGood>>, <<Unnumbered("card", ".png"), OldPng>>,
            <<Unnumbered("notes", ".txt"), Empty>>})
Partly(k) ==
  MkFolder({<<FileName(k, 1, ".jpg"), OldGood>>, <<FileName(k, 2, ".PNG"), OldPng>>,
            <<FileName(k \o " art", 1, ".jpg"), NetGood>>,
            <<Unnumbered("scan", ".JPEG"), Light>>})
Stray(k) ==
  MkFolder({<<FileName(k, 2, ".jpg"), OldGood>>, <<FileName(k, 7, ".txt"), Empty>>,
            <<FileName("pikachu", 3, ".jpg"), Thumb>>,
            <<[pre |-> k, num |-> <<4>>, ext |-> ".png"], OldPng>>})
RenameFolders(k) == {MkFolder({}), Gapless(k), Gapped(k), Loose(k), Partly(k), Stray(k)}

InitRename ==
  /\ fs \in [Folders -> UNION {RenameFolders(Pokemons[p]) : p \in 1..Len(Pokemons)}]
  /\ cli = {}
  /\ Idle

SpecRename == InitRename /\ [][NextRename]_vars

\* ============================================================== properties
Acquiring == prog \in {"selenium", "bing"}

Numbered(folder) == {f \in DOMAIN folder : f.num # <<>>}
Indices(folder) == {ToInt(f.num) : f \in Numbered(folder)}
MaxIndex(folder) ==
  IF Indices(folder) = {} THEN 0
  ELSE CHOOSE n \in Indices(folder) : \A k \in Indices(folder) : k <= n

\* the names that end, whatever the case, in .jpg, .jpeg or .png
ImageSpellings == {".jpg", ".JPG", ".jpeg", ".JPEG", ".png", ".PNG"}
CountedFiles(folder) == Cardinality({f \in DOMAIN folder : f.ext \in ImageSpellings})
Max0(n) == IF n > 0 THEN n ELSE 0

\* C1: no step of an acquisition run removes or changes a file that was
\* there before the step.
C1_NoOverwrite ==
  [][Acquiring =>
       \A F \in Folders : \A f \in DOMAIN fs[F] :
         f \in DOMAIN fs'[F] /\ fs'[F][f] = fs[F][f]]_vars

\* C2: an image fetch_image would accept is saved, also when the path of the
\* next index is taken: the writer goes on to an unused index.
C2_ProbesForward ==
  (prog = "selenium" /\ last.kind = "fetch" /\ last.good) => last.why = "saved"

\* no two numbered files of one class in the folder carry the same index
DistinctIndices(folder) ==
  \A f, g \in Numbered(folder) :
    (f # g /\ f.pre = g.pre) => ToInt(f.num) # ToInt(g.num)

\* C3: throughout an acquisition run no two files of the folder it fills
\* share a sequence index, whatever their extensions.
C3_DistinctIndices ==
  (Acquiring /\ DistinctIndices(start)) => DistinctIndices(fs[Folder])

\* C4: the index the run writes at starts at max(existing indices) + 1 and
\* stays above every index the folder held when the run began.
C4_StartAboveMax ==
  /\ (prog = "selenium" /\ pc = "candidates") => frame.next_index > MaxIndex(start)
  /\ (prog = "bing" /\ pc = "image_urls") => frame.count > MaxIndex(start)

\* C5: after the scan has deleted eevee_004.jpg, an acquisition run that
\* brings data/train/eevee to its target of 10 has written indices 8..11 and
\* left 10 files.
C5_EndToEnd ==
  (/\ Acquiring /\ pos.s = 1 /\ pc \in {"final", "returned"}
   /\ start = E2EAfterScan
   /\ CountedFiles(fs[Folder]) >= target_count)
  => /\ Indices(fs[Folder]) = (1..3) \cup (5..11)
     /\ Cardinality(DOMAIN fs[Folder]) = 10

\* C6: the count an acquisition attempt works with is the number of files on
\* disk whose name ends in .jpg, .jpeg or .png in any case, taken when the
\* attempt begins, and the attempt adds at most max(0, target - current).
C6_CountFromDisk ==
  /\ (prog = "selenium" /\ pc = "candidates") =>
       /\ frame.current_count + frame.saved = CountedFiles(fs[Folder])
       /\ frame.saved <= Max0(target_count - frame.current_count)
       /\ pos.m = 1 => frame.current_count = CountedFiles(start)
  /\ (prog = "selenium" /\ pc = "final") => frame.total = CountedFiles(fs[Folder])
  /\ (prog = "bing" /\ pc \in {"image_urls", "returned"}) =>
       /\ frame.current_count = CountedFiles(start)
       /\ frame.remaining = target_count - frame.current_count
       /\ pc = "image_urls" =>
            frame.count - (frame.current_count + 1) <= Max0(frame.remaining)

C6_Witness ==
  /\ prog = "selenium" /\ pc = "candidates" /\ frame.saved = 1
  /\ \E f \in DOMAIN start : f.ext = ".JPEG"
  /\ \E f \in DOMAIN start : f.ext = ".txt"

\* C7: when the folder already holds its target at the start of its fill,
\* the run sends no search and no fetch for it and leaves it as it was.
C7_Idempotent ==
  (Acquiring /\ CountedFiles(start) >= target_count)
  => (last.kind = "none" /\ fs[Folder] = start)

C7_Witness ==
  /\ prog = "selenium" /\ pc = "final" /\ pos.s = 1
  /\ CountedFiles(start) = target_count /\ target_count > 1

\* C8: no step of an acquisition run lowers the number of image files of any
\* folder.
C8_CountMonotone ==
  [][Acquiring => \A F \in Folders : CountedFiles(fs'[F]) >= CountedFiles(fs[F])]_vars

C8_Witness ==
  /\ prog = "bing" /\ last.kind = "fetch" /\ last.why = "saved"
  /\ CountedFiles(fs[Folder]) > CountedFiles(start)
  /\ CountedFiles(start) > 0

\* the stages of should_remove in the order it runs them
StageOrder == <<"size", "decode", "dimensions", "transparency", "low detail">>
StageFails(stage, img, st) ==
  CASE stage = "size" -> img.size < st.min_file_size
    [] stage = "decode" -> ~img.ok
    [] stage = "dimensions" -> img.w < st.min_dimension \/ img.h < st.min_dimension
    [] stage = "transparency" -> img.clear
    [] stage = "low detail" ->
         st.low_variance_threshold > 0 /\ img.stddev < st.low_variance_threshold
StageReason(stage) ==
  CASE stage = "size" -> "file too small"
    [] stage = "decode" -> "corrupted image"
    [] stage = "dimensions" -> "dimensions too small"
    [] stage = "transparency" -> "fully transparent image"
    [] stage = "low detail" -> "low detail"
FailingStages(img, st) == {i \in 1..Len(StageOrder) : StageFails(StageOrder[i], img, st)}
FirstOf(S) == CHOOSE i \in S : \A j \in S : i <= j
Judged == prog = "scan" /\ last.kind = "judge"

\* C9 as stated: an image that passes size, decode and dimensions and fails
\* both the low-detail and the transparency stage is reported as low detail.
C9_LowDetailBeforeTransparency ==
  (/\ Judged
   /\ ~StageFails("size", last.bytes, args) /\ ~StageFails("decode", last.bytes, args)
   /\ ~StageFails("dimensions", last.bytes, args)
   /\ StageFails("low detail", last.bytes, args)
   /\ StageFails("transparency", last.bytes, args))
  => last.verdict.reason = "low detail"

\* C9 as amended: the stages run in the order size, decode, dimensions,
\* transparency, low detail (the last only with a positive threshold); the
\* validator stops at the first that fails and returns its reason, so an
\* image failing both transparency and low detail is reported transparent.
C9_StageOrder ==
  Judged =>
    LET bad == FailingStages(last.bytes, args) IN
      IF bad = {}
      THEN /\ ~last.verdict.remove
           /\ last.verdict.stages =
                SubSeq(StageOrder, 1, IF args.low_variance_threshold > 0 THEN 5 ELSE 4)
      ELSE /\ last.verdict.remove
           /\ last.verdict.reason = StageReason(StageOrder[FirstOf(bad)])
           /\ last.verdict.stages = SubSeq(StageOrder, 1, FirstOf(bad))

C9_Witness ==
  /\ Judged
  /\ StageFails("low detail", last.bytes, args)
  /\ StageFails("transparency", last.bytes, args)
  /\ last.verdict.reason = "fully transparent image"

ReachesLowDetail ==
  /\ Judged
  /\ last.bytes.size >= args.min_file_size /\ last.bytes.ok
  /\ last.bytes.w >= args.min_dimension /\ last.bytes.h >= args.min_dimension
  /\ ~last.bytes.clear

\* C11: with a threshold t > 0, a file that reaches the low-detail stage is
\* kept when its grayscale standard deviation equals t (or exceeds it) and
\* rejected as low detail when it is below t; with t = 0 the stage rejects
\* nothing.
C11_VarianceBoundary ==
  ReachesLowDetail =>
    /\ (args.low_variance_threshold > 0 /\ last.bytes.stddev >= args.low_variance_threshold)
         => ~last.verdict.remove
    /\ (args.low_variance_threshold > 0 /\ last.bytes.stddev < args.low_variance_threshold)
         => (last.verdict.remove /\ last.verdict.reason = "low detail")
    /\ args.low_variance_threshold = 0 => ~last.verdict.remove

C11_Witness ==
  /\ ReachesLowDetail
  /\ args.low_variance_threshold > 0
  /\ last.bytes.stddev = args.low_variance_threshold
  /\ ~last.verdict.remove

\* the names check_dataset_summary.py finds under data/
AllNames == Listdir("train") \cup Listdir("test")
Normalized == prog = "summary" /\ pc = "rows"

\* C12: for the folder names bulbasaur, bulbasuar and ivysaur the normalizer
\* ends with exactly two canonical labels, bulbasaur and ivysaur, and maps
\* bulbasuar to bulbasaur.
C12_NameClustering ==
  (Normalized /\ AllNames = {bulbasaur, bulbasuar, ivysaur}) =>
    /\ frame.merged_names = <<bulbasaur, ivysaur>>
    /\ frame.normalized[bulbasuar] = bulbasaur
    /\ frame.normalized[bulbasaur] = bulbasaur
    /\ frame.normalized[ivysaur] = ivysaur

C12_Witness ==
  /\ Normalized /\ AllNames = {bulbasaur, bulbasuar, ivysaur}
  /\ Len(frame.merged_names) = 2

\* C16: a row of the summary says Complete exactly when the train count it
\* shows is at least the train target and the test count it shows is at least
\* the test target, and Incomplete otherwise; the count shown for a split
\* that holds a folder of the row's name is the number of image files in it.
C16_CompleteIff ==
  (prog = "summary" /\ last.kind = "row") =>
    /\ last.status \in {"Complete", "Incomplete"}
    /\ last.status = "Complete" <=>
         (last.train_count >= TARGET_TRAIN /\ last.test_count >= TARGET_TEST)
    /\ <<"train", last.pokemon>> \in DOMAIN fs =>
         last.train_count = CountedFiles(fs[<<"train", last.pokemon>>])
    /\ <<"test", last.pokemon>> \in DOMAIN fs =>
         last.test_count = CountedFiles(fs[<<"test", last.pokemon>>])
    /\ Listdir("train") = {} => last.train_count = 0
    /\ Listdir("test") = {} => last.test_count = 0

C16_Witness ==
  /\ prog = "summary" /\ last.kind = "row"
  /\ last.train_count = TARGET_TRAIN /\ last.test_count = TARGET_TEST
  /\ last.status = "Complete"

\* C13: no address that a search of an earlier modifier returned for the
\* folder is returned by the search of a later modifier, or fetched again.
C13_NoRepeatAcrossCalls ==
  prog = "selenium" =>
    /\ seen.current \cap seen.earlier = {}
    /\ last.kind = "fetch" => ~last.again

\* the files the run has added to the folder it is filling
Added == DOMAIN fs[Folder] \ DOMAIN start
LoopOver ==
  /\ prog = "selenium" /\ pc = "candidates"
  /\ frame.candidates = <<>> \/ frame.current_count + frame.saved >= target_count

\* C14: when a call has found at least as many candidates as the deficit and
\* every candidate it processed was acceptable, it has saved exactly the
\* deficit when its loop ends, at that many distinct indices.
C14_ExactlyDeficit ==
  (/\ LoopOver /\ frame.fit
   /\ frame.found >= target_count - frame.current_count)
  => /\ frame.saved = target_count - frame.current_count
     /\ pos.m = 1 =>
          Cardinality({ToInt(f.num) : f \in {g \in Added : g.num # <<>>}})
            = target_count - frame.current_count

\* C15: when a run is interrupted during a save, the file under the final
\* name, if there is one, holds the whole image.
C15_AtomicWrites ==
  (Acquiring /\ last.kind = "interrupted") =>
    (last.file \in DOMAIN fs[Folder] => fs[Folder][last.file] = last.whole)

\* sum(counter.values())
RECURSIVE SumCounts(_)
SumCounts(counter) ==
  IF DOMAIN counter = {} THEN 0
  ELSE LET k == CHOOSE x \in DOMAIN counter : TRUE
       IN  counter[k] + SumCounts([x \in DOMAIN counter \ {k} |-> counter[x]])

\* the per-reason counts a program holds for its closing report: the scan's
\* reason_counts; the acquisition run keeps none
ReasonCounts == IF prog = "scan" THEN frame.reason_counts ELSE <<>>

\* C17: the files the scan has rejected, and the candidates a harvest call
\* has rejected, number as many as the per-reason counts add up to.
C17_RejectionsCounted ==
  /\ prog = "scan" => frame.removed = SumCounts(ReasonCounts)
  /\ (prog = "selenium" /\ pc = "candidates") =>
       (frame.found - Len(frame.candidates)) - frame.saved = SumCounts(ReasonCounts)

\* C18: a fetch that fails (the request, the content type, the decoding, the
\* dimensions) or that meets a taken path leaves every file as it was and the
\* loop goes on to the next candidate with the same index.
C18_FailuresNonFatal ==
  [][(/\ Acquiring /\ pc \in {"candidates", "image_urls"}
      /\ last'.kind = "fetch"
      /\ ~last'.good \/ last'.why # "saved")
     => /\ fs' = fs /\ prog' = prog /\ pc' = pc
        /\ prog = "selenium" =>
             /\ frame'.candidates = Tail(frame.candidates)
             /\ frame'.next_index = frame.next_index
             /\ frame'.saved = frame.saved
        /\ prog = "bing" =>
             /\ frame'.image_urls = Tail(frame.image_urls)
             /\ frame'.count = frame.count]_vars

C18_Witness ==
  /\ prog = "selenium" /\ pc = "candidates"
  /\ last.kind = "fetch" /\ last.why = "dimensions"
  /\ frame.candidates # <<>>
  /\ fs[Folder] = start

\* the modifiers of the split the run is at
ModifierList == IF pos.s = 1 THEN TRAIN_CARD_QUERIES ELSE TEST_CARD_QUERIES
LastFolder == pos.p = Len(Pokemons) /\ pos.s = Len(Subsets)

C20_FileNames ==
  Acquiring =>
    \A f \in Added :
      /\ f.pre = Pokemons[pos.p]
      /\ Len(f.num) >= 3
      /\ f.ext \in {".jpg", ".png"}

\* C21: in the mapping the normalizer builds, every label that a name is
\* mapped to is mapped to itself, and so no label that was merged into another
\* label is the label another name is mapped to.
C21_TargetsCanonical ==
  prog = "summary" =>
    \A n \in DOMAIN frame.normalized :
      /\ frame.normalized[n] \in DOMAIN frame.normalized
      /\ frame.normalized[frame.normalized[n]] = frame.normalized[n]

\* the image files of the folder named <class>_<digits>.<ext>, and the
\* highest of their indices
Proper(folder, k) ==
  {f \in DOMAIN folder : f.ext \in ImageSpellings /\ f.pre = k /\ f.num # <<>>}
HighestProper(folder, k) ==
  IF Proper(folder, k) = {} THEN 0
  ELSE LET I == {ToInt(f.num) : f \in Proper(folder, k)}
       IN  CHOOSE n \in I : \A m \in I : m <= n

Rejects ==
  {x \in Listing(fs, 1) \cup Listing(fs, 2) : should_remove(fs[x[1]][x[2]], args).remove}

\* C23: a step of the scan creates, renames and rewrites no file; in dry-run
\* mode it leaves data/ as it is, counts a file as flagged exactly when
\* should_remove rejects it and ends with as many flagged as there are
\* rejected files; without dry-run the only file a step removes is the file
\* it has just judged, which should_remove rejects, and every other file
\* keeps its name and bytes; the flagged total is the sum of the per-reason
\* counts.
C23_ScanEffects ==
  /\ []((prog = "scan") => frame.removed = SumCounts(frame.reason_counts))
  /\ []((prog = "scan" /\ pc = "summary" /\ args.dry_run) =>
          frame.removed = Cardinality(Rejects))
  /\ [][(prog = "scan" /\ prog' = "scan") =>
          /\ \A F \in DOMAIN fs' : \A f \in DOMAIN fs'[F] :
               f \in DOMAIN fs[F] /\ fs'[F][f] = fs[F][f]
          /\ DOMAIN fs' = DOMAIN fs
          /\ args.dry_run => fs' = fs
          /\ \A F \in DOMAIN fs : \A f \in DOMAIN fs[F] \ DOMAIN fs'[F] :
               /\ last'.kind = "judge" /\ last'.file = <<F, f>> /\ last'.deleted
               /\ should_remove(fs[F][f], args).remove
               /\ frame'.removed = frame.removed + 1
          /\ (last'.kind = "judge" /\ args.dry_run) =>
               /\ last'.verdict = should_remove(fs[last'.file[1]][last'.file[2]], args)
               /\ frame'.removed = frame.removed + (IF last'.verdict.remove THEN 1 ELSE 0)
          /\ (last'.kind = "judge" /\ ~last'.verdict.remove) =>
               /\ fs' = fs /\ frame'.removed = frame.removed]_vars

C23_Witness ==
  /\ prog = "scan" /\ pc = "summary" /\ args.dry_run
  /\ frame.removed = 3 /\ frame.checked = 4
  /\ Cardinality(Rejects) = 3

====
